---------------------------- MODULE Spec2Model ----------------------------
(***************************************************************************)
(* Catalog Synchronization Engine of .github/scripts/update_source.py and  *)
(* .github/scripts/utils.py.                                               *)
(*                                                                         *)
(* Text that the code inspects character by character (names, repo slugs,  *)
(* bundle identifiers, tags, asset file names) is a sequence of one-       *)
(* character strings.  Python's None and '' are both the empty sequence    *)
(* where the code only tests truthiness.  Opaque values (download URLs,    *)
(* hashes, notes, image URLs) are TLA+ strings, "" standing for None/''.   *)
(***************************************************************************)
EXTENDS Integers, Sequences, FiniteSets, TLC

(***************************************************************************)
(* Python str operations                                                   *)
(***************************************************************************)
LowerLetters ==
    {"a","b","c","d","e","f","g","h","i","j","k","l","m",
     "n","o","p","q","r","s","t","u","v","w","x","y","z"}

Digits ==
    {"0","1","2","3","4","5","6","7","8","9"}

\* str.lower() on one character (the capitals the model's inputs use)
LowerChar(c) ==
    CASE c = "A" -> "a" [] c = "B" -> "b" [] c = "F" -> "f" [] c = "H" -> "h"
      [] c = "N" -> "n" [] c = "P" -> "p" [] c = "R" -> "r" [] c = "V" -> "v"
      [] OTHER -> c

UpperLetters ==
    {"A","B","F","H","N","P","R","V"}

Lower(s) ==
    [i \in 1..Len(s) |-> LowerChar(s[i])]

\* s[i:] for a 1-based i
From(s, i) ==
    SubSeq(s, i, Len(s))

\* s.startswith(p) at offset i (1-based)
MatchAt(s, p, i) ==
    /\ i >= 1
    /\ i + Len(p) - 1 <= Len(s)
    /\ SubSeq(s, i, i + Len(p) - 1) = p

StartsWith(s, p) ==
    MatchAt(s, p, 1)

EndsWith(s, p) ==
    MatchAt(s, p, Len(s) - Len(p) + 1)

\* p in s
Contains(s, p) ==
    \E i \in 1..(Len(s) + 1) : MatchAt(s, p, i)

\* s.replace(p, ''): every non-overlapping occurrence, left to right
RECURSIVE Remove(_, _)
Remove(s, p) ==
    IF p = <<>> \/ s = <<>> THEN s
    ELSE IF MatchAt(s, p, 1) THEN Remove(From(s, Len(p) + 1), p)
    ELSE <<Head(s)>> \o Remove(Tail(s), p)

RECURSIVE LStrip(_, _)
LStrip(s, chars) ==
    IF s # <<>> /\ Head(s) \in chars THEN LStrip(Tail(s), chars) ELSE s

RECURSIVE RStrip(_, _)
RStrip(s, chars) ==
    IF s # <<>> /\ s[Len(s)] \in chars
    THEN RStrip(SubSeq(s, 1, Len(s) - 1), chars) ELSE s

\* s.strip()
Strip(s) ==
    RStrip(LStrip(s, {" "}), {" "})

\* re.sub(r'[^...]', '', s) for the character class keep
RECURSIVE Keep(_, _)
Keep(s, keep) ==
    IF s = <<>> THEN <<>>
    ELSE (IF Head(s) \in keep THEN <<Head(s)>> ELSE <<>>) \o Keep(Tail(s), keep)

\* s.split(sep)[-1]
RECURSIVE AfterLast(_, _)
AfterLast(s, sep) ==
    IF \E i \in 1..Len(s) : s[i] = sep
    THEN AfterLast(Tail(s), sep) ELSE s

\* s.split(sep)[0]
RECURSIVE BeforeFirst(_, _)
BeforeFirst(s, sep) ==
    IF s = <<>> \/ Head(s) = sep THEN <<>>
    ELSE <<Head(s)>> \o BeforeFirst(Tail(s), sep)

(***************************************************************************)
(* Name Normalizer (utils.normalize_name, imported by update_source.py)    *)
(***************************************************************************)
normalize_name(s) ==
    Keep(Lower(s), LowerLetters \cup Digits)

(***************************************************************************)
(* Identifier Disambiguator                                                *)
(***************************************************************************)
suffixes ==
    << <<"n","i","g","h","t","l","y">>,
       <<"b","e","t","a">>,
       <<"a","l","p","h","a">>,
       <<"d","e","v">>,
       <<"t","e","s","t">>,
       <<"e","x","p","e","r","i","m","e","n","t","a","l">>,
       <<"p","r","e","-","r","e","l","e","a","s","e">>,
       <<"j","i","t">>,
       <<"s","i","d","e","s","t","o","r","e">> >>

AppendSuffix_always(bundle_id, s) ==
    bundle_id \o <<".">> \o s

\* bundle_id unless it already ends with ".{s}", else f"{bundle_id}.{s}"
AppendSuffix(bundle_id, s) ==
    IF EndsWith(bundle_id, <<".">> \o s) THEN bundle_id
    ELSE bundle_id \o <<".">> \o s

apply_bundle_id_suffix(bundle_id, app_name, repo_name) ==
    IF bundle_id = <<>> THEN bundle_id
    ELSE
      LET name_lower == Lower(app_name)
          hits == {i \in 1..Len(suffixes) : Contains(name_lower, suffixes[i])}
      IN  IF hits # {}
          THEN LET first == CHOOSE i \in hits : \A j \in hits : i <= j
               IN  AppendSuffix(bundle_id, suffixes[first])
          ELSE
            LET repo_name_clean == Lower(AfterLast(repo_name, "/"))
            IN  IF normalize_name(app_name) # normalize_name(repo_name_clean)
                THEN LET extra == Strip(Remove(name_lower, repo_name_clean))
                         extra_clean == Keep(extra, LowerLetters \cup Digits)
                     IN  IF extra_clean # <<>> /\ Len(extra_clean) > 2
                         THEN AppendSuffix(bundle_id, extra_clean)
                         ELSE bundle_id
                ELSE bundle_id


(***************************************************************************)
(* Patterns (re.compile(p, re.IGNORECASE) and pattern.search).  The        *)
(* patterns of the model are literal texts, which search as a case-        *)
(* insensitive substring, and the text "(", which re.compile rejects.      *)
(***************************************************************************)
RegexValid(p) ==
    \A i \in 1..Len(p) : p[i] \notin {"(", ")", "[", "]", "*", "+", "?", "\\"}

RegexSearch(p, s) ==
    Contains(Lower(s), Lower(p))

(***************************************************************************)
(* sorted(xs, key=..., reverse=True) on a sequence of [k, v] pairs: stable, *)
(* elements with equal keys keep their original order.                     *)
(***************************************************************************)
RECURSIVE InsertDesc(_, _)
InsertDesc(sorted, x) ==
    IF sorted = <<>> THEN <<x>>
    ELSE IF x.k > Head(sorted).k THEN <<x>> \o sorted
    ELSE <<Head(sorted)>> \o InsertDesc(Tail(sorted), x)

RECURSIVE SortDesc(_)
SortDesc(xs) ==
    IF xs = <<>> THEN <<>>
    ELSE InsertDesc(SortDesc(SubSeq(xs, 1, Len(xs) - 1)), xs[Len(xs)])

(***************************************************************************)
(* Release Resolver (GitHubClient.get_latest_release).  resp is the        *)
(* answer of GET /repos/{repo}/releases: [ok, data]; published_at is a     *)
(* time stamp whose day is published_at \div 10.  The result is <<>> for   *)
(* None and <<release>> otherwise.                                         *)
(***************************************************************************)
get_date(r) ==
    r.published_at

\* the list left in the order the API gave it
sorted_by_date_unsorted(rs) ==
    rs

sorted_by_date(rs) ==
    LET keyed == [i \in 1..Len(rs) |-> [k |-> get_date(rs[i]), v |-> rs[i]]]
        srt == SortDesc(keyed)
    IN  [i \in 1..Len(srt) |-> srt[i].v]

PreWins(sorted_pre, sorted_stable) ==
    sorted_stable = <<>> \/ get_date(sorted_pre[1]) >= get_date(sorted_stable[1])

get_latest_release(resp, prefer_pre_release, tag_regex) ==
    IF ~resp.ok THEN <<>>
    ELSE
      LET active0 == SelectSeq(resp.data, LAMBDA r : ~r.draft)
      IN  IF active0 = <<>> THEN <<>>
          ELSE
            LET active_releases ==
                    IF tag_regex # <<>> /\ RegexValid(tag_regex)
                    THEN SelectSeq(active0, LAMBDA r : RegexSearch(tag_regex, r.tag_name))
                    ELSE active0
            IN  IF active_releases = <<>> THEN <<>>
                ELSE
                  LET stable == SelectSeq(active_releases, LAMBDA r : ~r.prerelease)
                      pre    == SelectSeq(active_releases, LAMBDA r : r.prerelease)
                  IN  IF prefer_pre_release
                      THEN LET sorted_pre == sorted_by_date(pre)
                               sorted_stable == sorted_by_date(stable)
                           IN  IF sorted_pre # <<>> /\ PreWins(sorted_pre, sorted_stable)
                               THEN <<sorted_pre[1]>>
                               ELSE IF sorted_stable # <<>> THEN <<sorted_stable[1]>>
                               ELSE IF sorted_pre # <<>> THEN <<sorted_pre[1]>>
                               ELSE <<>>
                      ELSE IF stable # <<>>
                           THEN <<sorted_by_date(stable)[1]>>
                           ELSE <<sorted_by_date(active_releases)[1]>>

(***************************************************************************)
(* Asset Resolver (select_best_ipa)                                        *)
(***************************************************************************)
Alnum ==
    LowerLetters \cup UpperLetters \cup Digits

\* os.path.splitext(name)[0]: cut at the last dot unless only dots precede it
splitext_base(name) ==
    LET dots == {i \in 1..Len(name) : name[i] = "."}
    IN  IF dots = {} THEN name
        ELSE LET last == CHOOSE i \in dots : \A j \in dots : j <= i
             IN  IF \A j \in 1..(last - 1) : name[j] = "." THEN name
                 ELSE SubSeq(name, 1, last - 1)

\* re.sub(r'\s*\((.*?)\)', '', s)
RECURSIVE strip_parenthetical(_)
strip_parenthetical(s) ==
    LET opens == {i \in 1..Len(s) : s[i] = "("}
    IN  IF opens = {} THEN s
        ELSE
          LET open == CHOOSE i \in opens : \A j \in opens : i <= j
              closes == {i \in (open + 1)..Len(s) : s[i] = ")"}
          IN  IF closes = {} THEN s
              ELSE
                LET close == CHOOSE i \in closes : \A j \in closes : i <= j
                    kept == RStrip(SubSeq(s, 1, open - 1), {" "})
                IN  kept \o strip_parenthetical(From(s, close + 1))

\* set(re.findall(r'[a-zA-Z0-9]{3,}', s)): the maximal alphanumeric runs of
\* length 3 or more; cur is the run being read
RECURSIVE words(_, _)
words(s, cur) ==
    LET done == IF Len(cur) >= 3 THEN {cur} ELSE {}
    IN  IF s = <<>> THEN done
        ELSE IF Head(s) \in Alnum THEN words(Tail(s), cur \o <<Head(s)>>)
        ELSE done \cup words(Tail(s), <<>>)

exclude_patterns_remote_only ==
    << <<"-","r","e","m","o","t","e">> >>

exclude_patterns ==
    << <<"-","r","e","m","o","t","e">>,
       <<"-","h","v">>,
       <<"-","s","e">>,
       <<"-","j","a","i","l","b","r","o","k","e","n">>,
       <<"-","m","a","c","o","s">>,
       <<"-","l","i","n","u","x">>,
       <<"-","w","i","n","d","o","w","s">> >>

dot_ipa ==
    <<".","i","p","a">>

flavor_keywords(app_config) ==
    LET name_clean == strip_parenthetical(app_config.name)
        name_words == words(Lower(name_clean), <<>>)
        repo_words == words(Lower(app_config.github_repo), <<>>)
    IN  name_words \ repo_words

\* the subset score of one asset (lines 143-151)
asset_score(a, app_config) ==
    LET norm_app_name == normalize_name(app_config.name)
        base_name == splitext_base(a.name)
        norm_base == normalize_name(base_name)
        base_name_lower == Lower(base_name)
        hits == {kw \in flavor_keywords(app_config) : Contains(base_name_lower, kw)}
    IN  (IF Contains(norm_base, norm_app_name) THEN 10 ELSE 0)
        + (IF Contains(norm_app_name, norm_base) THEN 5 ELSE 0)
        + 20 * Cardinality(hits)

select_best_ipa(assets, app_config) ==
    LET ipa_assets == SelectSeq(assets, LAMBDA a : EndsWith(Lower(a.name), dot_ipa))
        ipa_regex == app_config.ipa_regex
        by_regex == IF ipa_regex # <<>> /\ RegexValid(ipa_regex)
                    THEN SelectSeq(ipa_assets, LAMBDA a : RegexSearch(ipa_regex, a.name))
                    ELSE <<>>
        norm_app_name == normalize_name(app_config.name)
        norm_repo_name == normalize_name(AfterLast(app_config.github_repo, "/"))
        exact == SelectSeq(ipa_assets, LAMBDA a :
                     LET norm_base == normalize_name(splitext_base(a.name))
                     IN  norm_base = norm_app_name \/ norm_base = norm_repo_name)
        scored_assets == SortDesc([i \in 1..Len(ipa_assets) |->
                             [k |-> asset_score(ipa_assets[i], app_config),
                              v |-> ipa_assets[i]]])
        filtered == SelectSeq(ipa_assets, LAMBDA a :
                        \A i \in 1..Len(exclude_patterns) :
                            ~Contains(Lower(a.name), exclude_patterns[i]))
    IN  IF ipa_assets = <<>> THEN <<>>
        ELSE IF Len(ipa_assets) = 1 THEN <<ipa_assets[1]>>
        ELSE IF by_regex # <<>> THEN <<by_regex[1]>>
        ELSE IF exact # <<>> THEN <<exact[1]>>
        ELSE IF scored_assets[1].k > 0 THEN <<scored_assets[1].v>>
        ELSE IF filtered # <<>> THEN <<filtered[1]>>
        ELSE <<ipa_assets[1]>>

(***************************************************************************)
(* Icon Discoverer (utils.find_best_icon), squareness check and Color      *)
(* Extractor.  Repository paths and URLs are texts.  A remote answer is a  *)
(* record with ok = FALSE for "unavailable" (GitHubClient.get gives None). *)
(* An image is [ok, decodable, width, height, colors], colors being the    *)
(* result of getcolors on the resized picture: [count, r, g, b, a] items.  *)
(* A color is <<r, g, b>> and <<>> stands for None.                        *)
(***************************************************************************)
valid_exts ==
    { <<".","p","n","g">>, <<".","j","p","g">>, <<".","j","p","e","g">>, <<".","w","e","b","p">>, <<".","s","v","g">> }

\* os.path.basename(p)
basename(p) ==
    AfterLast(p, "/")

score_path(path) ==
    LET p == Lower(path)
        name == basename(p)
    IN  (IF Contains(p, <<"a","p","p","i","c","o","n",".","a","p","p","i","c","o","n","s","e","t">>) THEN 100
         ELSE IF Contains(p, <<"i","o","s","/">>) THEN 50
         ELSE IF Contains(p, <<"a","s","s","e","t","s","/">>) THEN 20
         ELSE IF Contains(p, <<"p","u","b","l","i","c","/">>) THEN 10
         ELSE 0)
        + (IF Contains(name, <<"i","c","o","n">>) THEN 30
           ELSE IF Contains(name, <<"l","o","g","o">>) THEN 20
           ELSE IF Contains(name, <<"a","p","p">>) THEN 10
           ELSE 0)
        + (IF Contains(name, <<"1","0","2","4">>) THEN 15
           ELSE IF Contains(name, <<"5","1","2">>) THEN 10
           ELSE IF Contains(name, <<"1","2","0">>) THEN 5
           ELSE 0)
        - (IF Contains(p, <<"a","n","d","r","o","i","d">>) THEN 50 ELSE 0)
        - (IF Contains(name, <<"s","m","a","l","l">>) THEN 10 ELSE 0)
        - (IF Contains(name, <<"t","o","o","l","b","a","r">>) THEN 20 ELSE 0)

\* utils.score_icon_path is imported by update_source.py and is not in utils.py:
\* the path score of section 4.4 of the specification
score_icon_path(path) ==
    score_path(path)

raw_host ==
    <<"h","t","t","p","s",":","/","/","r","a","w",".","g","i","t","h","u","b","u","s","e","r","c","o","n","t","e","n","t",".","c","o","m","/">>

\* repo_info.get('default_branch', 'main') on an available repo_info
default_branch_of(repo_info) ==
    IF repo_info.default_branch = <<>> THEN <<"m","a","i","n">> ELSE repo_info.default_branch

\* find_best_icon: [raised, url]; url = <<>> is None.  raised is the
\* AttributeError of line 264 (repo_info is None).
find_best_icon(tree, root, repo_info, repo) ==
    LET use_root == ~tree.ok
        paths == IF use_root THEN root.paths ELSE tree.paths
        candidates == SortDesc(
            LET ok == SelectSeq(paths, LAMBDA path :
                          /\ \E e \in valid_exts : EndsWith(Lower(path), e)
                          /\ score_path(path) > 0)
            IN  [i \in 1..Len(ok) |-> [k |-> score_path(ok[i]), v |-> ok[i]]])
    IN  IF use_root /\ (~root.ok \/ root.paths = <<>>)
        THEN [raised |-> FALSE, url |-> <<>>]
        ELSE IF candidates = <<>>
        THEN [raised |-> FALSE,
              url |-> IF repo_info.ok /\ repo_info.has_owner
                      THEN repo_info.avatar_url ELSE <<>>]
        ELSE IF ~repo_info.ok
        THEN [raised |-> TRUE, url |-> <<>>]
        ELSE [raised |-> FALSE,
              url |-> raw_host \o repo \o <<"/">> \o default_branch_of(repo_info)
                      \o <<"/">> \o candidates[1].v]

is_http(url) ==
    StartsWith(url, <<"h","t","t","p",":","/","/">>) \/ StartsWith(url, <<"h","t","t","p","s",":","/","/">>)

\* is_square_image with tolerance 0.05: 0.95 <= width / height <= 1.05
is_square_image(image_url, img) ==
    IF image_url = <<>> \/ ~is_http(image_url) THEN FALSE
    ELSE IF ~img.ok THEN FALSE
    ELSE IF ~img.decodable \/ img.height = 0 THEN TRUE
    ELSE /\ 95 * img.height <= 100 * img.width
         /\ 100 * img.width <= 105 * img.height

\* the loop of lines 70-79: the first color with the greatest count among the
\* eligible ones, (0, 0, 0) when none is eligible
RECURSIVE dominant_of(_, _, _)
dominant_of(colors, max_count, dominant) ==
    IF colors = <<>> THEN dominant
    ELSE LET c == Head(colors)
             skip == \/ c.a < 10
                     \/ (c.r > 240 /\ c.g > 240 /\ c.b > 240)
                     \/ (c.r < 15 /\ c.g < 15 /\ c.b < 15)
         IN  IF ~skip /\ c.count > max_count
             THEN dominant_of(Tail(colors), c.count, <<c.r, c.g, c.b>>)
             ELSE dominant_of(Tail(colors), max_count, dominant)

extract_dominant_color(image_url, img) ==
    IF image_url = <<>> \/ ~is_http(image_url) THEN <<>>
    ELSE IF ~img.ok \/ ~img.decodable THEN <<>>
    ELSE IF img.colors = <<>> THEN <<>>
    ELSE dominant_of(img.colors, 0, <<0, 0, 0>>)

\* the caller's choice among the result of find_best_icon (lines 257-264 and
\* 391-401): it iterates the returned text, so a candidate is one character
pick_icon(repo_icons, img) ==
    LET cands == [i \in 1..Len(repo_icons) |-> <<repo_icons[i]>>]
        square == {i \in 1..Len(cands) : is_square_image(cands[i], img)}
    IN  IF repo_icons = <<>> THEN <<>>
        ELSE IF square # {}
        THEN cands[CHOOSE i \in square : \A j \in square : i <= j]
        ELSE cands[1]

(***************************************************************************)
(* Catalog Reconciler (process_app).                                       *)
(*                                                                         *)
(* A TrackedApp is [name, github_repo, icon_url, tint_color, pre_release,  *)
(* tag_regex, ipa_regex].  A CatalogEntry is [name, githubRepo,            *)
(* bundleIdentifier, developerName, version, versionDate,                  *)
(* versionDescription, downloadURL, localizedDescription, iconURL,         *)
(* tintColor, size, sha256, permissions, versions]; permissions tells      *)
(* whether the key is present, sha256 = "" that the key is absent, and     *)
(* screenshotURLs, always [], is left out.  up is the upstream state:      *)
(* releases, tree, root and info by repo slug, and image, the picture any  *)
(* http(s) image URL serves.  An asset carries content, what its download  *)
(* URL serves: [status, version, bundle_id, sha256].                       *)
(***************************************************************************)
no_icon_words ==
    { <<"N","o","n","e">>, <<"_","N","o"," ","r","e","s","p","o","n","s","e","_">> }

\* next((a for a in apps if a.githubRepo == repo and a.name == name), None),
\* then the repo-only fallback of lines 229-232; 0 is None
match_entry(apps, repo, name) ==
    LET exact == {i \in 1..Len(apps) :
                     apps[i].githubRepo = repo /\ apps[i].name = name}
        repo_matches == {i \in 1..Len(apps) : apps[i].githubRepo = repo}
    IN  IF exact # {} THEN CHOOSE i \in exact : \A j \in exact : i <= j
        ELSE IF Cardinality(repo_matches) = 1 THEN CHOOSE i \in repo_matches : TRUE
        ELSE 0

\* lines 270-295, the matched entry with its icon settled: tintColor from the
\* curated list, else extracted when the entry has none or #000000; then
\* app_entry.pop('permissions', None)
refresh_tint(e2, app_config, up) ==
    LET config_tint == app_config.tint_color
        extracted == extract_dominant_color(e2.iconURL, up.image)
        e3 == IF config_tint # <<>> THEN [e2 EXCEPT !.tintColor = config_tint]
              ELSE IF e2.tintColor = <<>> \/ e2.tintColor = <<0, 0, 0>>
              THEN (IF extracted # <<>> THEN [e2 EXCEPT !.tintColor = extracted]
                    ELSE e2)
              ELSE e2
    IN  [e3 EXCEPT !.permissions = FALSE]

\* lines 267-268: if best_icon: app_entry['iconURL'] = best_icon
set_icon(e1, best_icon) ==
    IF best_icon # <<>> THEN [e1 EXCEPT !.iconURL = best_icon] ELSE e1

\* lines 249-265: best_icon among the curated icon, the entry's icon and the
\* icon found in the repository
better_icon(e1, app_config, up, repo_icon) ==
    LET config_icon == app_config.icon_url
        current_icon == e1.iconURL
        best_icon0 == IF config_icon # <<>> /\ config_icon \notin no_icon_words
                      THEN config_icon ELSE current_icon
    IN  IF repo_icon = <<>> THEN best_icon0
        ELSE IF best_icon0 = <<>> THEN repo_icon
        ELSE IF is_square_image(repo_icon, up.image)
                /\ ~is_square_image(best_icon0, up.image) THEN repo_icon
        ELSE IF score_icon_path(repo_icon) > score_icon_path(best_icon0)
        THEN repo_icon
        ELSE best_icon0

\* lines 255-295 once find_best_icon of line 255 has answered or raised
refresh_found(e1, app_config, up, found) ==
    IF found.raised THEN [raised |-> TRUE, entry |-> e1]
    ELSE [raised |-> FALSE,
          entry |-> refresh_tint(
                        set_icon(e1, better_icon(e1, app_config, up,
                                                 pick_icon(found.url, up.image))),
                        app_config, up)]

\* lines 236-295 on the matched entry: [raised, entry]
refresh_entry(e, app_config, up) ==
    refresh_found([e EXCEPT !.githubRepo = app_config.github_repo,
                            !.name = app_config.name,
                            !.bundleIdentifier =
                                apply_bundle_id_suffix(e.bundleIdentifier,
                                                       app_config.name,
                                                       app_config.github_repo)],
                  app_config, up,
                  find_best_icon(up.tree[app_config.github_repo],
                                 up.root[app_config.github_repo],
                                 up.info[app_config.github_repo],
                                 app_config.github_repo))

\* the test of lines 316-317 made against the entry's current download only
has_version_latest(versions, download_url) ==
    versions # <<>> /\ versions[1].downloadURL = download_url

\* any(v.get('downloadURL') == download_url for v in versions)
has_version(versions, download_url) ==
    \E i \in 1..Len(versions) : versions[i].downloadURL = download_url

\* lines 327-343 on the downloaded file: [failed, version, bundle_id, sha256]
read_ipa(content, release, name, repo) ==
    LET default_bundle_id == <<"c","o","m",".","p","l","a","c","e","h","o","l","d","e","r",".">> \o Remove(Lower(name), <<" ">>)
        parsed == content.status = "ok" /\ content.version # <<>>
        version == IF parsed THEN content.version
                   ELSE LStrip(release.tag_name, {"v"})
        bundle_id == IF parsed THEN content.bundle_id ELSE default_bundle_id
    IN  [failed |-> content.status \in {"http_error", "hash_error"},
         version |-> version,
         bundle_id |-> apply_bundle_id_suffix(bundle_id, name, repo),
         sha256 |-> content.sha256]

\* the except branch (lines 347-348) and the finally branch (lines 351-352):
\* whether the temporary file exists afterwards
cleanup_except(exists) ==
    FALSE

\* a finally branch that removes nothing
cleanup_finally_none(exists) ==
    exists

cleanup_finally(exists) ==
    FALSE

\* lines 345-349: a failed download returns existing_source as it is, the
\* new version not merged
apps_after_failure_merged(apps1, merged) ==
    merged

apps_after_failure(apps1, merged) ==
    apps1

\* the new record replacing the current first one instead of preceding it
insert_version_replace(versions, new_version_entry) ==
    <<new_version_entry>> \o (IF versions = <<>> THEN <<>> ELSE Tail(versions))

\* versions.insert(0, new_version_entry)
insert_version(versions, new_version_entry) ==
    <<new_version_entry>> \o versions

\* found_icon_auto of line 234: nothing assigns it after that
found_icon_auto ==
    <<>>

sync_back_overwrite(apps_list, repo, icon) ==
    LET hits == {i \in 1..Len(apps_list) : apps_list[i].github_repo = repo}
    IN  IF hits = {} THEN apps_list
        ELSE LET i == CHOOSE h \in hits : \A j \in hits : h <= j
             IN  [apps_list EXCEPT ![i].icon_url = icon]

\* lines 428-434 on the curated list
sync_back(apps_list, repo, icon) ==
    LET hits == {i \in 1..Len(apps_list) : apps_list[i].github_repo = repo}
    IN  IF icon = <<>> \/ hits = {} THEN apps_list
        ELSE LET i == CHOOSE h \in hits : \A j \in hits : h <= j
             IN  IF apps_list[i].icon_url = <<>>
                 THEN [apps_list EXCEPT ![i].icon_url = icon]
                 ELSE apps_list

\* lines 403-425: the entry made for an unmatched TrackedApp, its icon settled
new_entry_with_icon(app_config, up, new_version_entry, bundle_id, main_desc, icon_url) ==
    LET extracted == extract_dominant_color(icon_url, up.image)
        tint_color == IF app_config.tint_color # <<>> THEN app_config.tint_color
                      ELSE IF extracted # <<>> THEN extracted
                      ELSE <<0, 0, 0>>
    IN  [name |-> app_config.name,
         githubRepo |-> app_config.github_repo,
         bundleIdentifier |-> bundle_id,
         developerName |-> BeforeFirst(app_config.github_repo, "/"),
         version |-> new_version_entry.version,
         versionDate |-> new_version_entry.date,
         versionDescription |-> new_version_entry.localizedDescription,
         downloadURL |-> new_version_entry.downloadURL,
         localizedDescription |-> main_desc,
         iconURL |-> icon_url,
         tintColor |-> tint_color,
         size |-> new_version_entry.size,
         sha256 |-> "",
         permissions |-> TRUE,
         versions |-> <<new_version_entry>>]

\* lines 387-425 once find_best_icon of line 390 has answered or raised; it is
\* called only when the curated list names no icon
new_entry_found(app_config, up, new_version_entry, bundle_id, main_desc, found) ==
    LET config_icon == app_config.icon_url
        search == config_icon = <<>> \/ config_icon \in no_icon_words
    IN  [raised |-> search /\ found.raised,
         entry |-> new_entry_with_icon(
                       app_config, up, new_version_entry, bundle_id, main_desc,
                       IF search /\ found.url # <<>>
                       THEN pick_icon(found.url, up.image) ELSE config_icon)]

\* lines 387-425: the entry made for an unmatched TrackedApp: [raised, entry]
new_entry(app_config, up, new_version_entry, bundle_id, main_desc) ==
    new_entry_found(app_config, up, new_version_entry, bundle_id, main_desc,
                    find_best_icon(up.tree[app_config.github_repo],
                                   up.root[app_config.github_repo],
                                   up.info[app_config.github_repo],
                                   app_config.github_repo))

\* lines 371-383: the matched entry with the new version merged in
merge_version(e, new_version_entry, bundle_id, main_desc) ==
    [e EXCEPT !.versions = insert_version(e.versions, new_version_entry),
              !.version = new_version_entry.version,
              !.versionDate = new_version_entry.date,
              !.versionDescription = new_version_entry.localizedDescription,
              !.downloadURL = new_version_entry.downloadURL,
              !.localizedDescription = main_desc,
              !.size = new_version_entry.size,
              !.sha256 = new_version_entry.sha256,
              !.bundleIdentifier = bundle_id]

\* What a call of process_app did.  apps: the catalog's entries afterwards;
\* config: the curated list afterwards; outcome: how the call ended ("raised":
\* an exception left it); matched: the index of the matched entry (0: none);
\* url: the resolved download URL ("" when none was resolved); downloaded: the
\* asset was requested; temp_created, temp_exists: the temporary file.
Result(apps, config, outcome, matched, url, downloaded, temp_created, temp_exists) ==
    [apps |-> apps, config |-> config, outcome |-> outcome, matched |-> matched,
     url |-> url, downloaded |-> downloaded, temp_created |-> temp_created,
     temp_exists |-> temp_exists]

\* lines 384-436 for an unmatched TrackedApp, the new entry made or not
process_created(app_config, apps1, apps_list, download_url, temp_exists, created) ==
    IF created.raised
    THEN Result(apps1, apps_list, "raised", 0, download_url, TRUE, TRUE, temp_exists)
    ELSE Result(Append(apps1, created.entry),
                sync_back(apps_list, app_config.github_repo, found_icon_auto),
                "new_app", 0, download_url, TRUE, TRUE, temp_exists)

\* lines 345-436, the download attempted and the temporary file dealt with
process_downloaded(app_config, apps1, up, apps_list, m, release, ipa_asset, ipa) ==
    LET download_url == ipa_asset.browser_download_url
        temp_exists == cleanup_finally(IF ipa.failed THEN cleanup_except(TRUE) ELSE TRUE)
        repo_info == up.info[app_config.github_repo]
        main_desc == IF repo_info.ok /\ repo_info.description # ""
                     THEN repo_info.description ELSE "No description available."
        new_version_entry ==
            [version |-> ipa.version,
             date |-> release.published_at \div 10,
             localizedDescription |->
                 IF release.body # "" THEN release.body ELSE "Update",
             downloadURL |-> download_url,
             size |-> ipa_asset.size,
             sha256 |-> ipa.sha256]
        merged == IF m # 0
                  THEN [apps1 EXCEPT ![m] =
                           merge_version(apps1[m], new_version_entry,
                                         ipa.bundle_id, main_desc)]
                  ELSE apps1
    IN  IF ipa.failed
        THEN Result(apps_after_failure(apps1, merged), apps_list, "download_failed",
                    m, download_url, TRUE, TRUE, temp_exists)
        ELSE IF m # 0
        THEN Result(merged,
                    sync_back(apps_list, app_config.github_repo, found_icon_auto),
                    "new_version", m, download_url, TRUE, TRUE, temp_exists)
        ELSE process_created(app_config, apps1, apps_list, download_url, temp_exists,
                             new_entry(app_config, up, new_version_entry,
                                       ipa.bundle_id, main_desc))

\* lines 308-436, the asset chosen (<<>>: none)
process_asset(app_config, apps1, up, apps_list, m, release, ipa_asset) ==
    IF ipa_asset = <<>>
    THEN Result(apps1, apps_list, "no_asset", m, "", FALSE, FALSE, FALSE)
    ELSE IF m # 0 /\ has_version(apps1[m].versions, ipa_asset[1].browser_download_url)
    THEN Result(apps1, apps_list, "up_to_date", m,
                ipa_asset[1].browser_download_url, FALSE, FALSE, FALSE)
    ELSE process_downloaded(app_config, apps1, up, apps_list, m, release,
                            ipa_asset[1],
                            read_ipa(ipa_asset[1].content, release,
                                     app_config.name, app_config.github_repo))

\* lines 297-436, the release resolved (<<>>: none)
process_release(app_config, apps1, up, apps_list, m, release) ==
    IF release = <<>>
    THEN Result(apps1, apps_list, "no_release", m, "", FALSE, FALSE, FALSE)
    ELSE process_asset(app_config, apps1, up, apps_list, m, release[1],
                       select_best_ipa(release[1].assets, app_config))

\* lines 236-436, the matched entry (if any) refreshed or the refresh raised
process_refreshed(app_config, apps, up, apps_list, m, refreshed) ==
    LET apps1 == IF m = 0 THEN apps ELSE [apps EXCEPT ![m] = refreshed.entry]
    IN  IF refreshed.raised
        THEN Result(apps1, apps_list, "raised", m, "", FALSE, FALSE, FALSE)
        ELSE process_release(app_config, apps1, up, apps_list, m,
                             get_latest_release(up.releases[app_config.github_repo],
                                                app_config.pre_release,
                                                app_config.tag_regex))

\* lines 234-436, the entry matched (m = 0: none)
process_matched(app_config, apps, up, apps_list, m) ==
    process_refreshed(app_config, apps, up, apps_list, m,
                      IF m = 0 THEN [raised |-> FALSE, entry |-> <<>>]
                      ELSE refresh_entry(apps[m], app_config, up))

\* process_app(app_config, existing_source, client, apps_list_to_update)
process_app(app_config, apps, up, apps_list) ==
    process_matched(app_config, apps, up, apps_list,
                    match_entry(apps, app_config.github_repo, app_config.name))

(***************************************************************************)
(* Catalog Pruner/Sorter (update_repo, lines 461-485)                      *)
(***************************************************************************)
\* a filter that lets every entry through
prune_keep_all(entries, apps_list) ==
    entries

\* lines 462-475
prune(entries, apps_list) ==
    LET valid_repos == {apps_list[i].github_repo : i \in 1..Len(apps_list)}
        valid_names == {<<BeforeFirst(apps_list[i].github_repo, "/"), apps_list[i].name>> :
                            i \in 1..Len(apps_list)}
    IN  SelectSeq(entries, LAMBDA a :
            IF a.githubRepo # <<>> THEN a.githubRepo \in valid_repos
            ELSE <<a.developerName, a.name>> \in valid_names)

\* app_order of line 477: a repo listed several times keeps its last index
\* (0-based), and get_sort_key of lines 479-483
get_sort_key(app_entry, apps_list) ==
    LET at == {i \in 1..Len(apps_list) : apps_list[i].github_repo = app_entry.githubRepo}
    IN  IF app_entry.githubRepo # <<>> /\ at # {}
        THEN (CHOOSE i \in at : \A j \in at : j <= i) - 1
        ELSE 9999

\* list.sort(key=...): ascending and stable
RECURSIVE InsertAsc(_, _)
InsertAsc(sorted, x) ==
    IF sorted = <<>> THEN <<x>>
    ELSE IF x.k < Head(sorted).k THEN <<x>> \o sorted
    ELSE <<Head(sorted)>> \o InsertAsc(Tail(sorted), x)

RECURSIVE SortAsc(_)
SortAsc(xs) ==
    IF xs = <<>> THEN <<>>
    ELSE InsertAsc(SortAsc(SubSeq(xs, 1, Len(xs) - 1)), xs[Len(xs)])

sort_entries(entries, apps_list) ==
    LET srt == SortAsc([i \in 1..Len(entries) |->
                   [k |-> get_sort_key(entries[i], apps_list), v |-> entries[i]]])
    IN  [i \in 1..Len(srt) |-> srt[i].v]

(***************************************************************************)
(* Files.  A JSON file is [state, data]: state "ok" (data is its content), *)
(* "corrupt" (not valid JSON), "partial" (a prefix of a document) or       *)
(* "absent"; data is only read when state = "ok".                          *)
(***************************************************************************)
source_name ==
    "Aiko3993's Sideload Source"

source_identifier ==
    "io.github.aiko3993.source"

empty_source ==
    [name |-> source_name, identifier |-> source_identifier, apps |-> <<>>]

\* load_existing_source: load_json leaves through sys.exit on a file it cannot
\* read or decode, and the bare except of line 90 catches that SystemExit
load_existing_source_any(file) ==
    IF file.state # "absent" THEN file.data ELSE empty_source

load_existing_source(file) ==
    IF file.state = "ok" THEN file.data ELSE empty_source

(***************************************************************************)
(* Inputs of the model: the repositories, their upstream states, the       *)
(* curated lists and the catalogs found on disk.                           *)
(***************************************************************************)
MaxApps == 2

MaxRuns == 2

MaxEdits == 1

repo_foo == <<"o","/","f","o","o">>

repo_bar == <<"o","/","b","a","r">>

Repos == {repo_foo, repo_bar}

Asset(name, url, size, status, version, bundle_id, sha256) ==
    [name |-> name, browser_download_url |-> url, size |-> size,
     content |-> [status |-> status, version |-> version,
                  bundle_id |-> bundle_id, sha256 |-> sha256]]

Release(tag_name, draft, prerelease, published_at, body, assets) ==
    [tag_name |-> tag_name, draft |-> draft, prerelease |-> prerelease,
     published_at |-> published_at, body |-> body, assets |-> assets]

r_v1 ==
    Release(<<"v","1">>, FALSE, FALSE, 10, "first",
            <<Asset(<<"F","o","o",".","i","p","a">>, "u1", 100, "ok", <<"1",".","0">>, <<"c",".","f">>, "h1")>>)

r_beta2 ==
    Release(<<"b","e","t","a","2">>, FALSE, TRUE, 25, "",
            <<Asset(<<"F","o","o","-","H","V",".","i","p","a">>, "u2hv", 210, "ok", <<"2",".","0">>, <<"c",".","f">>, "h2hv"),
              Asset(<<"F","o","o",".","i","p","a">>, "u2", 200, "no_manifest", <<>>, <<>>, "h2")>>)

r_v3 ==
    Release(<<"v","3">>, FALSE, FALSE, 30, "third",
            <<Asset(<<"F","o","o",".","i","p","a">>, "u3", 300, "http_error", <<>>, <<>>, "")>>)

r_v4 ==
    Release(<<"v","4">>, FALSE, FALSE, 40, "sources only",
            <<Asset(<<"n","o","t","e","s",".","t","x","t">>, "u4", 1, "ok", <<>>, <<>>, "h4")>>)

r_draft ==
    Release(<<"v","5">>, TRUE, FALSE, 50, "draft",
            <<Asset(<<"F","o","o",".","i","p","a">>, "u5", 500, "ok", <<"5",".","0">>, <<"c",".","f">>, "h5")>>)

r_v3h ==
    Release(<<"v","3">>, FALSE, FALSE, 30, "third",
            <<Asset(<<"F","o","o",".","i","p","a">>, "u3h", 300, "hash_error", <<"3",".","0">>, <<"c",".","f">>, "")>>)

rb_v1 ==
    Release(<<"v","1">>, FALSE, FALSE, 12, "bar",
            <<Asset(<<"B","a","r",".","i","p","a">>, "ub1", 110, "ok", <<"1",".","0">>, <<"c",".","b">>, "hb1")>>)

Unavailable == [ok |-> FALSE, data |-> <<>>]

Available(rs) == [ok |-> TRUE, data |-> rs]

FooReleases ==
    { Unavailable,
      Available(<<r_v1>>),
      Available(<<r_beta2, r_v1>>),
      Available(<<r_draft, r_v3, r_v1>>),
      Available(<<r_v4, r_beta2>>),
      Available(<<r_v3h, r_beta2>>) }

RepoInfo(ok) ==
    [ok |-> ok, has_owner |-> TRUE, avatar_url |-> <<"h","t","t","p","s",":","/","/","a","/","o",".","p","n","g">>,
     default_branch |-> <<>>, description |-> IF ok THEN "An app" ELSE ""]

Paths(ok, paths) == [ok |-> ok, paths |-> paths]

Image(ok, decodable, width, height, colors) ==
    [ok |-> ok, decodable |-> decodable, width |-> width, height |-> height,
     colors |-> colors]

Pixel(count, r, g, b, a) ==
    [count |-> count, r |-> r, g |-> g, b |-> b, a |-> a]

\* the tree, root listing, repo info (the same for every repository) and the
\* picture served for image URLs
IconScenarios ==
    { [tree |-> Paths(TRUE, << <<"R","E","A","D","M","E",".","m","d">>, <<"i","o","s","/","i","c","o","n",".","p","n","g">> >>),
       root |-> Paths(TRUE, << <<"R","E","A","D","M","E",".","m","d">> >>),
       info |-> RepoInfo(TRUE),
       image |-> Image(TRUE, TRUE, 100, 100,
                       <<Pixel(9, 255, 255, 255, 255), Pixel(5, 51, 102, 153, 255)>>)],
      [tree |-> Paths(TRUE, << <<"l","o","g","o",".","p","n","g">> >>),
       root |-> Paths(FALSE, <<>>),
       info |-> RepoInfo(FALSE),
       image |-> Image(FALSE, FALSE, 0, 0, <<>>)],
      [tree |-> Paths(FALSE, <<>>),
       root |-> Paths(FALSE, <<>>),
       info |-> RepoInfo(TRUE),
       image |-> Image(TRUE, TRUE, 200, 100, <<Pixel(7, 200, 0, 0, 255)>>)] }

Upstreams ==
    { [releases |-> [r \in Repos |-> IF r = repo_foo THEN fr ELSE Available(<<rb_v1>>)],
       tree |-> [r \in Repos |-> sc.tree],
       root |-> [r \in Repos |-> sc.root],
       info |-> [r \in Repos |-> sc.info],
       image |-> sc.image] : fr \in FooReleases, sc \in IconScenarios }

TrackedApp(name, repo, icon_url, tint_color, pre_release, tag_regex, ipa_regex) ==
    [name |-> name, github_repo |-> repo, icon_url |-> icon_url,
     tint_color |-> tint_color, pre_release |-> pre_release,
     tag_regex |-> tag_regex, ipa_regex |-> ipa_regex]

app_foo ==
    TrackedApp(<<"F","o","o">>, repo_foo, <<>>, <<>>, FALSE, <<>>, <<>>)

app_foo_pre ==
    TrackedApp(<<"F","o","o">>, repo_foo, <<>>, <<>>, TRUE, <<"(">>, <<>>)

app_beta ==
    TrackedApp(<<"F","o","o"," ","B","e","t","a">>, repo_foo, <<"h","t","t","p","s",":","/","/","i","/","a","n","d","r","o","i","d",".","p","n","g">>, <<>>, TRUE, <<"b","e","t","a">>, <<>>)

app_hv ==
    TrackedApp(<<"F","o","o"," ","H","V">>, repo_foo, <<>>, <<>>, TRUE, <<>>, <<"h","v">>)

app_bar ==
    TrackedApp(<<"B","a","r">>, repo_bar, <<>>, <<>>, FALSE, <<>>, <<>>)

TrackedApps ==
    {app_foo, app_foo_pre, app_beta, app_hv, app_bar}

\* the curated lists: up to MaxApps TrackedApps with distinct (repo, name)
CuratedLists ==
    UNION { {s \in [1..n -> TrackedApps] :
                \A i, j \in 1..n :
                    i # j => <<s[i].github_repo, s[i].name>> # <<s[j].github_repo, s[j].name>>} :
            n \in 1..MaxApps }

VersionRecord(version, date, notes, url, size, sha256) ==
    [version |-> version, date |-> date, localizedDescription |-> notes,
     downloadURL |-> url, size |-> size, sha256 |-> sha256]

\* an entry as an earlier run left it: its top-level fields mirror versions[1]
Entry(name, repo, bundle_id, icon_url, tint_color, versions) ==
    [name |-> name, githubRepo |-> repo, bundleIdentifier |-> bundle_id,
     developerName |-> BeforeFirst(repo, "/"),
     version |-> versions[1].version, versionDate |-> versions[1].date,
     versionDescription |-> versions[1].localizedDescription,
     downloadURL |-> versions[1].downloadURL,
     localizedDescription |-> "An app", iconURL |-> icon_url,
     tintColor |-> tint_color, size |-> versions[1].size,
     sha256 |-> versions[1].sha256, permissions |-> FALSE, versions |-> versions]

File(state, data) ==
    [state |-> state, data |-> data]

absent_file ==
    File("absent", empty_source)

\* an entry written before entries carried githubRepo
LegacyEntry(name, repo, bundle_id, versions) ==
    [Entry(name, repo, bundle_id, <<>>, <<>>, versions) EXCEPT !.githubRepo = <<>>]

\* the catalogs found on disk before the first run: none, an unreadable one
\* (the cut dump of a catalog with one entry),
\* one that lists two flavors of o/foo with distinct identifiers, and one
\* that holds entries without githubRepo
InitialCatalogs ==
    { absent_file,
      File("ok", [empty_source EXCEPT !.apps =
          << LegacyEntry(<<"O","l","d">>, repo_bar, <<"c",".","o">>,
                         <<VersionRecord(<<"0",".","1">>, 0, "old", "uo0", 10, "ho0")>>),
             Entry(<<"F","o","o">>, repo_foo, <<"c",".","f">>, <<>>, <<>>,
                   <<VersionRecord(<<"0",".","9">>, 0, "old", "u0", 90, "h0")>>),
             LegacyEntry(<<"B","a","r">>, repo_bar, <<"c",".","b">>,
                         <<VersionRecord(<<"0",".","5">>, 0, "old", "ub0", 50, "hb0")>>) >>]),
      File("corrupt", [empty_source EXCEPT !.apps =
          << Entry(<<"F","o","o">>, repo_foo, <<"c",".","f">>, <<>>, <<>>,
                   <<VersionRecord(<<"0",".","9">>, 0, "old", "u0", 90, "h0")>>) >>]),
      File("ok", [empty_source EXCEPT !.apps =
          << Entry(<<"F","o","o">>, repo_foo, <<"c",".","f">>, <<"h","t","t","p","s",":","/","/","i","/","i","c","o","n",".","p","n","g">>, <<9, 9, 9>>,
                   <<VersionRecord(<<"1",".","0">>, 1, "first", "u1", 100, "h1")>>),
             Entry(<<"F","o","o"," ","H","V">>, repo_foo, <<"c",".","f",".","h","v">>, <<>>, <<>>,
                   <<VersionRecord(<<"0",".","9">>, 0, "old", "u0hv", 90, "h0hv")>>) >>]) }

\* the curated-list file: a list, or a file that is not valid JSON
CuratedFiles ==
    {File("ok", l) : l \in CuratedLists} \cup {File("corrupt", <<>>)}

(***************************************************************************)
(* save_json (utils.py, lines 38-54) on fs = [target, tmp], the file at    *)
(* path and the NamedTemporaryFile beside it.                              *)
(***************************************************************************)
\* line 44: the temporary file is created, nothing written yet
save_open(fs, data) ==
    [fs EXCEPT !.tmp = File("partial", data)]

\* a dump that writes to path itself
save_dump_in_place(fs, data) ==
    [fs EXCEPT !.target = File("partial", data)]

\* line 45 and the close of the with block: the document is in the temporary file
save_dump(fs, data) ==
    [fs EXCEPT !.tmp = File("ok", data)]

\* line 48: os.replace(tmp_path, path)
save_replace(fs) ==
    [target |-> fs.tmp, tmp |-> absent_file]

\* lines 50-54: tmp_path is set once the with block is left
save_failed(fs, tmp_path_set) ==
    IF tmp_path_set THEN [fs EXCEPT !.tmp = absent_file] ELSE fs

(***************************************************************************)
(* The state machine: runs of update_repo on one catalog, one after the    *)
(* other, with the curated list and the upstream state changing between    *)
(* runs.                                                                   *)
(***************************************************************************)
VARIABLES
    apps_file,      \* config_file on disk: the curated list
    source_file,    \* source_file on disk: the catalog
    upstream,       \* what the remote API answers
    pc,             \* where update_repo is: "idle", "loop", "save", "dump", "replace"
    apps,           \* update_repo's apps
    original_apps,  \* update_repo's original_apps
    source_data,    \* update_repo's source_data
    idx,            \* the position of the for loop of line 453 (1-based)
    tmp_file,       \* the temporary file of this run's save_json
    temp_ipa,       \* whether a temporary .ipa file exists
    last,           \* the last process_app call of this run: its input and result
    run,            \* this run: the catalog file at its start, the replacements made
    ended,          \* how the last run ended
    written,        \* the catalogs the last two runs wrote since the inputs last changed
    runs,           \* runs that wrote the catalog
    edits           \* changes of the curated list or the upstream state

vars ==
    <<apps_file, source_file, upstream, pc, apps, original_apps, source_data,
      idx, tmp_file, temp_ipa, last, run, ended, written, runs, edits>>

no_call ==
    [idx |-> 0, app |-> app_foo, before |-> <<>>,
     result |-> [apps |-> <<>>, config |-> <<>>, outcome |-> "none", matched |-> 0,
                 url |-> "", downloaded |-> FALSE, temp_created |-> FALSE,
                 temp_exists |-> FALSE]]

\* the record of a run: the catalog file at its start, the curated list it
\* loaded, the calls of process_app made, whether each of them resolved a
\* release and an asset and (when it had to) downloaded it, the catalog after
\* the filter and the sort, and the replacements of the catalog file
new_run(file, list) ==
    [start |-> file, list |-> list, processed |-> 0, all_ok |-> TRUE,
     finalized |-> FALSE, final |-> empty_source, replaced |-> 0]

Init ==
    /\ apps_file \in CuratedFiles
    /\ source_file \in InitialCatalogs
    /\ upstream \in Upstreams
    /\ pc = "idle"
    /\ apps = <<>>
    /\ original_apps = <<>>
    /\ source_data = empty_source
    /\ idx = 0
    /\ tmp_file = absent_file
    /\ temp_ipa = FALSE
    /\ last = no_call
    /\ run = new_run(source_file, <<>>)
    /\ ended = "none"
    /\ written = <<>>
    /\ runs = 0
    /\ edits = 0

\* the run is over: the memory of the process is gone
Forget ==
    /\ apps' = <<>>
    /\ original_apps' = <<>>
    /\ source_data' = empty_source
    /\ idx' = 0

\* the curated list is edited before the first run or after a run that wrote
\* the catalog
EditCurated ==
    /\ pc = "idle"
    /\ ended \in {"none", "written"}
    /\ edits < MaxEdits
    /\ \E f \in CuratedFiles \ {apps_file} : apps_file' = f
    /\ edits' = edits + 1
    /\ written' = <<>>
    /\ UNCHANGED <<source_file, upstream, pc, apps, original_apps, source_data,
                   idx, tmp_file, temp_ipa, last, run, ended, runs>>

\* upstream changes before the first run or after a run that wrote the catalog
UpstreamChange ==
    /\ pc = "idle"
    /\ ended \in {"none", "written"}
    /\ edits < MaxEdits
    /\ \E u \in Upstreams \ {upstream} : upstream' = u
    /\ edits' = edits + 1
    /\ written' = <<>>
    /\ UNCHANGED <<apps_file, source_file, pc, apps, original_apps, source_data,
                   idx, tmp_file, temp_ipa, last, run, ended, runs>>

\* update_repo, lines 439-451; load_json ends the run on a curated list it
\* cannot decode
StartRun ==
    /\ pc = "idle"
    /\ runs < MaxRuns
    /\ last' = no_call
    /\ run' = new_run(source_file, IF apps_file.state = "ok" THEN apps_file.data ELSE <<>>)
    /\ IF apps_file.state = "ok"
       THEN /\ pc' = "loop"
            /\ apps' = apps_file.data
            /\ original_apps' = apps_file.data
            /\ source_data' = [load_existing_source(source_file) EXCEPT
                                   !.name = source_name,
                                   !.identifier = source_identifier]
            /\ idx' = 1
            /\ ended' = "running"
       ELSE /\ ended' = "exit"
            /\ UNCHANGED <<pc, apps, original_apps, source_data, idx>>
    /\ tmp_file' = absent_file
    /\ UNCHANGED <<apps_file, source_file, upstream, temp_ipa, written, runs, edits>>

\* one iteration of the loop of lines 453-454; an exception of process_app
\* leaves update_repo
ProcessApp ==
    /\ pc = "loop"
    /\ idx <= Len(apps)
    /\ \E res \in {process_app(apps[idx], source_data.apps, upstream, apps)} :
           /\ last' = [idx |-> idx, app |-> apps[idx], before |-> source_data.apps,
                       result |-> res]
           /\ temp_ipa' = (temp_ipa \/ res.temp_exists)
           /\ run' = [run EXCEPT !.processed = idx,
                                 !.all_ok = run.all_ok /\ res.outcome \in
                                     {"new_app", "new_version", "up_to_date"}]
           /\ IF res.outcome = "raised"
              THEN /\ pc' = "idle"
                   /\ ended' = "raised"
                   /\ Forget
              ELSE /\ source_data' = [source_data EXCEPT !.apps = res.apps]
                   /\ apps' = res.config
                   /\ idx' = idx + 1
                   /\ UNCHANGED <<pc, ended, original_apps>>
    /\ UNCHANGED <<apps_file, source_file, upstream, tmp_file, written, runs, edits>>

\* lines 456-485: the write-back of the curated list, the filter and the sort
Finalize ==
    /\ pc = "loop"
    /\ idx > Len(apps)
    /\ apps_file' = IF apps # original_apps THEN File("ok", apps) ELSE apps_file
    /\ source_data' = [source_data EXCEPT
                           !.apps = sort_entries(prune(source_data.apps, apps), apps)]
    /\ run' = [run EXCEPT !.finalized = TRUE, !.final = source_data']
    /\ pc' = "save"
    /\ UNCHANGED <<source_file, upstream, apps, original_apps, idx, tmp_file,
                   temp_ipa, last, ended, written, runs, edits>>

\* save_json(source_file, source_data), line 486, in its three steps
SaveOpen ==
    /\ pc = "save"
    /\ LET fs == save_open([target |-> source_file, tmp |-> tmp_file], source_data)
       IN  /\ source_file' = fs.target
           /\ tmp_file' = fs.tmp
    /\ pc' = "dump"
    /\ UNCHANGED <<apps_file, upstream, apps, original_apps, source_data, idx,
                   temp_ipa, last, run, ended, written, runs, edits>>

SaveDump ==
    /\ pc = "dump"
    /\ LET fs == save_dump([target |-> source_file, tmp |-> tmp_file], source_data)
       IN  /\ source_file' = fs.target
           /\ tmp_file' = fs.tmp
    /\ pc' = "replace"
    /\ UNCHANGED <<apps_file, upstream, apps, original_apps, source_data, idx,
                   temp_ipa, last, run, ended, written, runs, edits>>

SaveReplace ==
    /\ pc = "replace"
    /\ LET fs == save_replace([target |-> source_file, tmp |-> tmp_file])
       IN  /\ source_file' = fs.target
           /\ tmp_file' = fs.tmp
           /\ written' = IF written = <<>> THEN <<fs.target>>
                         ELSE <<written[Len(written)], fs.target>>
    /\ run' = [run EXCEPT !.replaced = run.replaced + 1]
    /\ pc' = "idle"
    /\ ended' = "written"
    /\ runs' = runs + 1
    /\ Forget
    /\ UNCHANGED <<apps_file, upstream, temp_ipa, last, edits>>

\* an exception inside save_json: lines 50-54, then sys.exit(1)
SaveError ==
    /\ pc \in {"save", "dump", "replace"}
    /\ LET fs == save_failed([target |-> source_file, tmp |-> tmp_file], pc = "replace")
       IN  /\ source_file' = fs.target
           /\ tmp_file' = fs.tmp
    /\ pc' = "idle"
    /\ ended' = "exit"
    /\ Forget
    /\ UNCHANGED <<apps_file, upstream, temp_ipa, last, run, written, runs, edits>>

\* the process is killed in the middle of a run
Crash ==
    /\ pc # "idle"
    /\ pc' = "idle"
    /\ ended' = "crash"
    /\ Forget
    /\ last' = no_call
    /\ UNCHANGED <<apps_file, source_file, upstream, tmp_file, temp_ipa, run,
                   written, runs, edits>>

Next ==
    \/ EditCurated
    \/ UpstreamChange
    \/ StartRun
    \/ ProcessApp
    \/ Finalize
    \/ SaveOpen
    \/ SaveDump
    \/ SaveReplace
    \/ SaveError
    \/ Crash

Spec ==
    Init /\ [][Next]_vars

(***************************************************************************)
(* Properties                                                              *)
(***************************************************************************)
CatalogFiles ==
    {source_file} \cup (IF pc = "idle" THEN {} ELSE {File("ok", source_data)})

\* the versions lists a catalog holds
VersionLists(entries) ==
    {entries[i].versions : i \in 1..Len(entries)}

\* how a call of process_app can end without merging anything
Failures ==
    {"no_release", "no_asset", "download_failed"}

\* C1: reconciliation is idempotent: of two runs in a row against the same
\* curated list and the same upstream state, the second writes the catalog the
\* first wrote.
C1_Idempotent ==
    Len(written) = 2 => written[2] = written[1]

\* C2: after a run in which every TrackedApp's release, asset and download
\* succeeded, the catalog written holds, for every TrackedApp of the curated
\* list, an entry with that TrackedApp's (repo, name).
C2_EveryFlavorHasItsEntry ==
    (ended = "written" /\ run.all_ok) =>
        \A i \in 1..Len(run.list) :
            \E j \in 1..Len(source_file.data.apps) :
                /\ source_file.data.apps[j].githubRepo = run.list[i].github_repo
                /\ source_file.data.apps[j].name = run.list[i].name

C4_NewestFirst ==
    ended = "written" =>
        \A vs \in VersionLists(source_file.data.apps) :
            \A k \in 1..(Len(vs) - 1) : vs[k].date >= vs[k + 1].date

\* C5: a call of process_app keeps every entry it found, and the versions
\* list of each of them afterwards is the list before the call, or that list
\* with one record put in front of it.
C5_AppendOnly ==
    last.idx # 0 =>
        /\ Len(last.result.apps) >= Len(last.before)
        /\ \A i \in 1..Len(last.before) :
               LET b == last.before[i].versions
                   a == last.result.apps[i].versions
               IN  a = b \/ (Len(a) = Len(b) + 1 /\ Tail(a) = b)

\* a call of process_app put a record in front of a non-empty history
C5_Witness ==
    /\ last.result.outcome = "new_version"
    /\ last.before[last.result.matched].versions # <<>>
    /\ Len(last.result.apps[last.result.matched].versions)
           = Len(last.before[last.result.matched].versions) + 1

\* C6: when the matched entry already holds a record with the resolved
\* download URL, process_app downloads nothing and adds no record; and no
\* entry, in memory or on disk, holds two records with the same download URL.
C6_NoDuplicateDownload ==
    /\ (/\ last.idx # 0
        /\ last.result.matched # 0
        /\ last.result.url # ""
        /\ \E v \in {last.before[last.result.matched].versions[k] :
                        k \in 1..Len(last.before[last.result.matched].versions)} :
               v.downloadURL = last.result.url)
       => (/\ ~last.result.downloaded
           /\ \A i \in 1..Len(last.before) :
                  last.result.apps[i].versions = last.before[i].versions)
    /\ \A f \in CatalogFiles :
           \A vs \in VersionLists(f.data.apps) :
               \A k, l \in 1..Len(vs) :
                   k # l => vs[k].downloadURL # vs[l].downloadURL

\* the resolved asset is an older record of the matched entry, not its first
C6_Witness ==
    /\ last.result.outcome = "up_to_date"
    /\ Len(last.before[last.result.matched].versions) >= 2
    /\ last.before[last.result.matched].versions[1].downloadURL # last.result.url

\* C7, as claimed: a call of process_app that ends with no release, no asset
\* or a failed download leaves the catalog as it was.
C7_FailureLeavesCatalogUntouched ==
    last.result.outcome \in Failures => last.result.apps = last.before

\* an entry without the metadata that lines 236-295 refresh
Unrefreshed(e) ==
    [e EXCEPT !.name = <<>>, !.githubRepo = <<>>, !.bundleIdentifier = <<>>,
              !.iconURL = <<>>, !.tintColor = <<>>, !.permissions = FALSE]

\* C7, amended: such a call adds and removes no entry, leaves every entry but
\* the matched one as it was, and changes of the matched entry nothing but
\* name, githubRepo, bundleIdentifier, iconURL, tintColor and permissions.
C7_FailureKeepsVersions ==
    last.result.outcome \in Failures =>
        /\ Len(last.result.apps) = Len(last.before)
        /\ \A i \in 1..Len(last.before) :
               IF i = last.result.matched
               THEN Unrefreshed(last.result.apps[i]) = Unrefreshed(last.before[i])
               ELSE last.result.apps[i] = last.before[i]

\* a failed download for a matched entry whose metadata the call refreshed
C7_Witness ==
    /\ last.result.outcome = "download_failed"
    /\ last.result.matched # 0
    /\ last.result.apps # last.before

\* C8: no failure of one TrackedApp ends the run: an exception never leaves
\* process_app.
C8_BatchNeverAborts ==
    ended # "raised"

\* C9: once process_app has returned or raised, the temporary file it made is
\* gone.
C9_TempFileReleased ==
    /\ ~temp_ipa
    /\ last.result.temp_created => ~last.result.temp_exists

\* the temporary file was made and the call failed, or raised afterwards
C9_Witness ==
    /\ last.result.temp_created
    /\ last.result.outcome \in {"download_failed", "raised"}

\* C10: the catalog file is never partly written: it is the file the run
\* found until the one replacement of the run, which comes after every
\* TrackedApp was processed and the catalog filtered and sorted, and puts the
\* whole new catalog in its place.
C10_CatalogFileAtomic ==
    /\ source_file.state # "partial"
    /\ run.replaced <= 1
    /\ run.replaced = 0 => source_file = run.start
    /\ run.replaced = 1 =>
           /\ source_file = File("ok", run.final)
           /\ run.finalized
           /\ run.processed = Len(run.list)

\* the run was killed inside save_json, the temporary file half written
C10_Witness ==
    /\ ended = "crash"
    /\ run.finalized
    /\ tmp_file.state = "partial"
    /\ run.final # run.start.data

\* the test of lines 469 and 473 on one entry, against a curated list
Listed(a, list) ==
    IF a.githubRepo # <<>>
    THEN \E i \in 1..Len(list) : list[i].github_repo = a.githubRepo
    ELSE \E i \in 1..Len(list) :
             /\ a.developerName = BeforeFirst(list[i].github_repo, "/")
             /\ a.name = list[i].name

\* the entries of a catalog
Entries(entries) ==
    {entries[i] : i \in 1..Len(entries)}

\* C11: the catalog written holds only entries whose githubRepo is in the
\* curated list or, without githubRepo, whose (developerName, name) is the
\* (owner, name) of a TrackedApp; and it holds every such entry that the
\* reconciliation left.
C11_Pruned ==
    ended = "written" =>
        /\ \A a \in Entries(source_file.data.apps) : Listed(a, run.list)
        /\ Entries(source_file.data.apps)
               = {a \in Entries(last.result.apps) : Listed(a, run.list)}
        /\ Len(source_file.data.apps)
               = Cardinality({i \in 1..Len(last.result.apps) :
                                  Listed(last.result.apps[i], run.list)})

\* a write that dropped an entry for its githubRepo and one without githubRepo
\* for its name, and kept one without githubRepo
C11_Witness ==
    /\ ended = "written"
    /\ \E a \in Entries(last.result.apps) \ Entries(source_file.data.apps) :
           a.githubRepo # <<>>
    /\ \E a \in Entries(last.result.apps) \ Entries(source_file.data.apps) :
           a.githubRepo = <<>>
    /\ \E a \in Entries(source_file.data.apps) : a.githubRepo = <<>>

\* the positions in a catalog of the entries of the TrackedApp t
EntriesOf(entries, t) ==
    {a \in 1..Len(entries) :
         entries[a].githubRepo = t.github_repo /\ entries[a].name = t.name}

MaxReleases ==
    3

\* releases that differ in tag, draft flag, prerelease flag and time stamp
ReleasePool ==
    {Release(t, d, pr, at, "", <<>>) :
        t \in {<<"v","1">>, <<"b","1">>}, d \in BOOLEAN, pr \in BOOLEAN, at \in {10, 20}}

ReleaseLists ==
    UNION {[1..n -> ReleasePool] : n \in 0..MaxReleases}

\* no filter, a filter that "b1" passes, and a pattern re.compile rejects
TagFilters ==
    {<<>>, <<"B">>, <<"(">>}

ResolverCalls ==
    {[resp |-> resp, prefer_pre_release |-> p, tag_regex |-> t] :
        resp \in {Unavailable} \cup {Available(rs) : rs \in ReleaseLists},
        p \in BOOLEAN, t \in TagFilters}

ResolverInit ==
    /\ apps_file = File("corrupt", <<>>)
    /\ source_file = absent_file
    /\ upstream = Unavailable
    /\ pc = "idle"
    /\ apps = <<>>
    /\ original_apps = <<>>
    /\ source_data = empty_source
    /\ idx = 0
    /\ tmp_file = absent_file
    /\ temp_ipa = FALSE
    /\ last = [fn |-> "none"]
    /\ run = new_run(absent_file, <<>>)
    /\ ended = "none"
    /\ written = <<>>
    /\ runs = 0
    /\ edits = 0

ResolveRelease ==
    /\ last.fn = "none"
    /\ \E c \in ResolverCalls :
           last' = [fn |-> "get_latest_release", resp |-> c.resp,
                    prefer_pre_release |-> c.prefer_pre_release,
                    tag_regex |-> c.tag_regex,
                    result |-> get_latest_release(c.resp, c.prefer_pre_release,
                                                  c.tag_regex)]
    /\ UNCHANGED <<apps_file, source_file, upstream, pc, apps, original_apps,
                   source_data, idx, tmp_file, temp_ipa, run, ended, written,
                   runs, edits>>

SpecResolver ==
    ResolverInit /\ [][ResolveRelease]_vars

\* the positions of the releases of the answer that are no drafts and pass
\* the tag filter, when one is given and is a valid pattern
Candidates(c) ==
    {i \in 1..Len(c.resp.data) :
        /\ ~c.resp.data[i].draft
        /\ (c.tag_regex # <<>> /\ RegexValid(c.tag_regex))
               => RegexSearch(c.tag_regex, c.resp.data[i].tag_name)}

\* of the positions is: the one with the greatest published_at, the first of
\* the list among equals; 0 when there is none
MostRecent(c, is) ==
    IF is = {} THEN 0
    ELSE CHOOSE i \in is :
             \A j \in is :
                 \/ c.resp.data[j].published_at < c.resp.data[i].published_at
                 \/ (c.resp.data[j].published_at = c.resp.data[i].published_at
                     /\ i <= j)

MostRecentPre(c) ==
    MostRecent(c, {i \in Candidates(c) : c.resp.data[i].prerelease})

MostRecentStable(c) ==
    MostRecent(c, {i \in Candidates(c) : ~c.resp.data[i].prerelease})

\* <<>> for position 0, else the release at the position
ReleaseAt(c, i) ==
    IF i = 0 THEN <<>> ELSE <<c.resp.data[i]>>

\* C13: with prefer_pre_release, get_latest_release returns the most recent
\* pre-release among the candidates, unless a stable candidate is published
\* at the same time or later: then it returns the most recent stable one;
\* without a pre-release it returns the most recent stable candidate, and
\* without any candidate nothing.
C13_PreferPreRelease ==
    (last.fn = "get_latest_release" /\ last.prefer_pre_release) =>
        last.result =
            IF MostRecentPre(last) # 0
               /\ (MostRecentStable(last) = 0
                   \/ last.resp.data[MostRecentStable(last)].published_at
                          < last.resp.data[MostRecentPre(last)].published_at)
            THEN ReleaseAt(last, MostRecentPre(last))
            ELSE ReleaseAt(last, MostRecentStable(last))

\* C14: without prefer_pre_release, get_latest_release returns a candidate
\* (no draft, and no release the valid tag filter rejects): the most recent
\* stable one if a stable one remains, else the most recent of all; of equally
\* recent ones the first of the list; and nothing when no candidate remains.
C14_PreferStable ==
    (last.fn = "get_latest_release" /\ ~last.prefer_pre_release) =>
        last.result =
            IF MostRecentStable(last) # 0
            THEN ReleaseAt(last, MostRecentStable(last))
            ELSE ReleaseAt(last, MostRecent(last, Candidates(last)))

\* the most recent stable candidate is not the first of the list, another one
\* is as recent, and a draft and a release the filter rejects were set aside
C14_Witness ==
    /\ last.fn = "get_latest_release"
    /\ ~last.prefer_pre_release
    /\ MostRecentStable(last) = 2
    /\ \E j \in Candidates(last) :
           /\ j > 2
           /\ ~last.resp.data[j].prerelease
           /\ last.resp.data[j].published_at = last.resp.data[2].published_at
    /\ last.resp.data[1].draft \/ 1 \notin Candidates(last)

(***************************************************************************)
(* The Asset Resolver on its own: select_best_ipa applied to one asset     *)
(* list of a release and one entry of the curated list.                    *)
(***************************************************************************)
MaxAssets == 3

NamedAsset(name) ==
    Asset(name, <<"h","t","t","p","s",":","/","/","d","/">> \o name, 1, "ok", <<"1",".","0">>, <<"c",".","f">>, "h")

AssetPool ==
    { NamedAsset(n) : n \in { <<"F","o","o",".","i","p","a">>, <<"F","o","o","-","H","V",".","I","P","A">>, <<"M","y","F","o","o",".","i","p","a">>,
                              <<"b","e","t","a","-","h","v",".","i","p","a">>, <<"A","p","p","-","R","e","m","o","t","e",".","i","p","a">>, <<"A","p","p",".","i","p","a">>,
                              <<"n","o","t","e","s",".","t","x","t">> } }

AssetLists ==
    UNION { [1..n -> AssetPool] : n \in 0..MaxAssets }

AssetConfigs ==
    TrackedApps \cup
        { TrackedApp(<<"B","a","r">>, repo_bar, <<>>, <<>>, FALSE, <<>>, <<"(">>),
          TrackedApp(<<"B","a","r">>, repo_bar, <<>>, <<>>, FALSE, <<>>, <<"r","e","m","o","t","e">>) }

SelectAsset ==
    /\ last.fn = "none"
    /\ \E assets \in AssetLists, app_config \in AssetConfigs :
           last' = [fn |-> "select_best_ipa", assets |-> assets,
                    app_config |-> app_config,
                    result |-> select_best_ipa(assets, app_config)]
    /\ UNCHANGED <<apps_file, source_file, upstream, pc, apps, original_apps,
                   source_data, idx, tmp_file, temp_ipa, run, ended, written,
                   runs, edits>>

SpecAssets ==
    ResolverInit /\ [][SelectAsset]_vars

\* the positions of the candidates: the assets named *.ipa, in any case
IpaAt(c) ==
    {i \in 1..Len(c.assets) : EndsWith(Lower(c.assets[i].name), dot_ipa)}

\* the candidates a given and valid asset filter matches
FilterAt(c) ==
    IF c.app_config.ipa_regex # <<>> /\ RegexValid(c.app_config.ipa_regex)
    THEN {i \in IpaAt(c) : RegexSearch(c.app_config.ipa_regex, c.assets[i].name)}
    ELSE {}

\* the candidates whose normalized base name is the normalized name of the
\* application or of the repository
ExactAt(c) ==
    {i \in IpaAt(c) :
        normalize_name(splitext_base(c.assets[i].name))
            \in {normalize_name(c.app_config.name),
                 normalize_name(AfterLast(c.app_config.github_repo, "/"))}}

\* the candidates of the highest fuzzy score, when that score is positive
BestScoreAt(c) ==
    {i \in IpaAt(c) :
        /\ asset_score(c.assets[i], c.app_config) > 0
        /\ \A j \in IpaAt(c) : asset_score(c.assets[j], c.app_config)
                                  <= asset_score(c.assets[i], c.app_config)}

FlavorMarkers ==
    { <<"-","r","e","m","o","t","e">>, <<"-","h","v">>, <<"-","s","e">>, <<"-","j","a","i","l","b","r","o","k","e","n">>, <<"-","m","a","c","o","s">>, <<"-","l","i","n","u","x">>,
      <<"-","w","i","n","d","o","w","s">> }

\* the candidates whose name holds no flavor-suffix marker
UnmarkedAt(c) ==
    {i \in IpaAt(c) :
        \A m \in FlavorMarkers : ~Contains(Lower(c.assets[i].name), m)}

First(S) ==
    CHOOSE i \in S : \A j \in S : i <= j

\* the set of the first tier of the chain that applies
TierAt(c) ==
    IF Cardinality(IpaAt(c)) = 1 THEN IpaAt(c)
    ELSE IF FilterAt(c) # {} THEN FilterAt(c)
    ELSE IF ExactAt(c) # {} THEN ExactAt(c)
    ELSE IF BestScoreAt(c) # {} THEN BestScoreAt(c)
    ELSE IF UnmarkedAt(c) # {} THEN UnmarkedAt(c)
    ELSE IpaAt(c)

C15_WitnessScore ==
    /\ last.fn = "select_best_ipa"
    /\ Cardinality(IpaAt(last)) > 1
    /\ FilterAt(last) = {} /\ ExactAt(last) = {}
    /\ Cardinality(BestScoreAt(last)) > 1
    /\ First(BestScoreAt(last)) # First(IpaAt(last))
    /\ last.result = <<last.assets[First(BestScoreAt(last))]>>

(***************************************************************************)
(* The Identifier Disambiguator on its own: apply_bundle_id_suffix applied *)
(* to an identifier, and again to what it returned, as process_app does on *)
(* the stored identifier of a matched entry at each run.                   *)
(***************************************************************************)
BundleIds ==
    { <<>>, <<"c",".","f">>, <<"c",".","f",".","b","e","t","a">>, <<"c",".","f",".","n","i","g","h","t","l","y">>, <<"c",".","f",".","h","v">>, <<"c",".","f",".","e","x","t","r","a">>,
      <<"b","e","t","a">>, <<"c",".","b","e","t","a",".","f">> }

AppNames ==
    { <<"F","o","o">>, <<"F","o","o"," ","B","e","t","a">>, <<"F","o","o"," ","(","N","i","g","h","t","l","y"," ","B","e","t","a",")">>, <<"F","o","o"," ","H","V">>, <<"F","o","o"," ","E","x","t","r","a">>,
      <<"F","O","O">>, <<"B","a","r">> }

DisambiguateInit ==
    ResolverInit

Disambiguate ==
    /\ last.fn = "none"
    /\ \E bundle_id \in BundleIds, app_name \in AppNames, repo_name \in Repos :
           \E once \in {apply_bundle_id_suffix(bundle_id, app_name, repo_name)} :
               last' = [fn |-> "apply_bundle_id_suffix", bundle_id |-> bundle_id,
                        app_name |-> app_name, repo_name |-> repo_name,
                        result |-> once,
                        again |-> apply_bundle_id_suffix(once, app_name, repo_name)]
    /\ UNCHANGED <<apps_file, source_file, upstream, pc, apps, original_apps,
                   source_data, idx, tmp_file, temp_ipa, run, ended, written,
                   runs, edits>>

SpecIdentifier ==
    DisambiguateInit /\ [][Disambiguate]_vars

\* C16: apply_bundle_id_suffix is idempotent: applied to its own result with
\* the same name and repository it returns that result, so a second
\* application never lengthens the identifier.
C16_Idempotent ==
    last.fn = "apply_bundle_id_suffix" =>
        /\ last.again = last.result
        /\ Len(last.again) = Len(last.result)

\* the first application lengthened the identifier and the second did not
C16_Witness ==
    /\ last.fn = "apply_bundle_id_suffix"
    /\ Len(last.result) > Len(last.bundle_id)
    /\ last.again = last.result

\* the loop of update_repo (lines 453-454) from position i on, for a loop
\* that no call leaves: the catalog entries after the last call
RECURSIVE reconcile(_, _, _, _)
reconcile_next(res, i, up) ==
    reconcile(res.apps, res.config, i + 1, up)

reconcile(entries, config, i, up) ==
    IF i > Len(config) THEN [apps |-> entries, config |-> config]
    ELSE reconcile_next(process_app(config[i], entries, up, config), i, up)

\* what a run on an empty catalog leaves in the catalog file
FreshCatalog(list, up) ==
    [empty_source EXCEPT !.apps =
        sort_entries(prune(reconcile(<<>>, list, 1, up).apps,
                           reconcile(<<>>, list, 1, up).config),
                     reconcile(<<>>, list, 1, up).config)]

\* C17: a catalog file that cannot be read or decoded does not end the run:
\* update_repo goes on with an empty apps list, processes the whole curated
\* list and writes the catalog that a run without catalog file would write.
C17_SelfHealing ==
    run.start.state = "corrupt" =>
        /\ (pc = "loop" /\ run.processed = 0) =>
               (source_data.apps = <<>> /\ ended = "running")
        /\ (run.list # <<>> /\ ended = "exit") => run.finalized
        /\ (ended = "written" /\ written # <<>>) =>
               /\ run.processed = Len(run.list)
               /\ source_file = File("ok", FreshCatalog(run.list, upstream))

\* a run that started on an unreadable catalog file wrote a catalog with an
\* entry for a curated list of two
C17_Witness ==
    /\ run.start.state = "corrupt"
    /\ ended = "written" /\ written # <<>>
    /\ Len(run.list) = 2
    /\ source_file.state = "ok"
    /\ source_file.data.apps # <<>>

\* the top-level fields of an entry repeat its first version record
Mirrors(e) ==
    /\ e.versions # <<>>
    /\ e.version = e.versions[1].version
    /\ e.versionDate = e.versions[1].date
    /\ e.versionDescription = e.versions[1].localizedDescription
    /\ e.downloadURL = e.versions[1].downloadURL
    /\ e.size = e.versions[1].size
    /\ e.sha256 = e.versions[1].sha256

\* the entry the most recent call of process_app created or gave a version
Touched ==
    IF last.result.outcome = "new_app"
    THEN last.result.apps[Len(last.result.apps)]
    ELSE last.result.apps[last.result.matched]

\* C19: an entry that process_app has just created, or to which it has just
\* added a version, has a non-empty versions list and its top-level version,
\* date, notes, download URL, size and hash are those of its first version
\* record.
C19_LatestMirrored ==
    (pc # "idle" /\ last.result.outcome \in {"new_app", "new_version"}) =>
        Mirrors(Touched)

\* the same for the entries that received a new version only
C19_UpdatedMirrored ==
    (pc # "idle" /\ last.result.outcome = "new_version") => Mirrors(Touched)

\* list after is list before but for icon overrides that were empty
OnlyFills(before, after) ==
    /\ Len(after) = Len(before)
    /\ \A i \in 1..Len(before) :
           \/ after[i] = before[i]
           \/ /\ before[i].icon_url = <<>>
              /\ after[i] = [before[i] EXCEPT !.icon_url = after[i].icon_url]

\* C20: a sync changes the curated list, in memory and in its file, at most
\* by filling icon overrides that were empty: the same TrackedApps in the same
\* order, every other field and every non-empty icon override as before.
C20_WriteBackLimited ==
    /\ pc = "loop" => OnlyFills(run.list, apps)
    /\ (pc \in {"save", "dump", "replace"}
            \/ (pc = "idle" /\ ended = "written" /\ written # <<>>)) =>
           (apps_file.state = "ok" /\ OnlyFills(run.list, apps_file.data))

\* a sync has written the catalog with an icon it found itself for a
\* TrackedApp without icon override, beside a TrackedApp with an override
C20_Witness ==
    /\ pc = "idle" /\ ended = "written" /\ written # <<>>
    /\ \E i \in 1..Len(run.list) :
           /\ run.list[i].icon_url = <<>>
           /\ \E k \in 1..Len(source_file.data.apps) :
                  /\ source_file.data.apps[k].name = run.list[i].name
                  /\ source_file.data.apps[k].githubRepo = run.list[i].github_repo
                  /\ source_file.data.apps[k].iconURL # <<>>
                  /\ run.start.state = "absent"
    /\ \E i \in 1..Len(run.list) : run.list[i].icon_url # <<>>
    /\ OnlyFills(run.list, apps_file.data)

(***************************************************************************)
(* The squareness check on its own: is_square_image applied to one URL     *)
(* and to the answer of client.get for it.                                 *)
(***************************************************************************)
ImageUrls ==
    { <<>>, <<"h","t","t","p","s",":","/","/","i","/","a",".","p","n","g">>, <<"h","t","t","p",":","/","/","i","/","a",".","p","n","g">>, <<"f","t","p",":","/","/","i","/","a",".","p","n","g">>, <<"h">> }

ImageAnswers ==
    { Image(ok, decodable, width, height, <<>>) :
          ok \in BOOLEAN, decodable \in BOOLEAN,
          width \in {94, 95, 100, 105, 106, 190, 210}, height \in {100, 200} }

CheckSquare ==
    /\ last.fn = "none"
    /\ \E image_url \in ImageUrls, img \in ImageAnswers :
           last' = [fn |-> "is_square_image", image_url |-> image_url,
                    img |-> img, result |-> is_square_image(image_url, img)]
    /\ UNCHANGED <<apps_file, source_file, upstream, pc, apps, original_apps,
                   source_data, idx, tmp_file, temp_ipa, run, ended, written,
                   runs, edits>>

SpecSquare ==
    ResolverInit /\ [][CheckSquare]_vars

\* width / height is within 5% of 1.0
WithinTolerance(img) ==
    /\ 95 * img.height <= 100 * img.width
    /\ 100 * img.width <= 105 * img.height

\* C21: for an http(s) URL is_square_image answers true when the image cannot
\* be fetched or cannot be decoded, and otherwise exactly when width / height
\* is within 5% of 1.0.
C21_SquareOrCheckFailed ==
    (last.fn = "is_square_image" /\ is_http(last.image_url)) =>
        last.result = IF ~last.img.ok \/ ~last.img.decodable THEN TRUE
                      ELSE WithinTolerance(last.img)

\* the same for the images that were fetched
C21_SquareOrUndecodable ==
    (last.fn = "is_square_image" /\ is_http(last.image_url) /\ last.img.ok) =>
        last.result = IF ~last.img.decodable THEN TRUE
                      ELSE WithinTolerance(last.img)

=============================================================================
